---- MODULE Spec2Model ----
(***************************************************************************)
(* RAG support system: the production engine (src/src/rag_engine), its     *)
(* Pinecone-backed vector store, the /api/query route of                   *)
(* src/src/api/routes.py, and the reference in-memory store of             *)
(* src/rag-service.                                                        *)
(*                                                                         *)
(* Numbers.  Similarities are fixed-point integers in units of 1e-4        *)
(* (SimUnit = 1.0); confidences and thresholds are in units of 1e-6        *)
(* (ConfUnit = 1.0), so that the weighted sum 0.6/0.25/0.15 of 1e-4 values *)
(* is exact.  round(x, 3) rounds to a multiple of 1e-3.                    *)
(***************************************************************************)
EXTENDS Integers, Sequences, FiniteSets, TLC

VARIABLES
    low,        \* config.rag.confidence_threshold_low   (1e-6 units)
    high,       \* config.rag.confidence_threshold_high  (1e-6 units)
    clock,      \* int(time.time()): the current unix second
    index,      \* the Pinecone index: vector id -> stored metadata
    ncalls,     \* number of engine operations called so far
    adds,       \* history: the add_documents calls made so far, each with
                \* the number of chunks passed and whether it returned
    called,     \* the engine operation that returned last, with its
                \* arguments and the file system it ran against
    log,        \* collaborator calls made by that operation, in order
    result,     \* the dict that operation returned
    http,       \* the response of /api/query when the operation came in
                \* over HTTP, NoResponse when the engine was called directly
    \* the reference in-memory store of src/rag-service
    store_texts,    \* InMemoryVectorStore.texts
    store_metadata, \* InMemoryVectorStore.metadata
    store_vectors,  \* InMemoryVectorStore.vectors: <<>> is None, <<a>> the array a
    store_nn,       \* InMemoryVectorStore.nn: <<>> is None, <<e>> the estimator e
    adder,      \* the thread running add: its position and locals
    searcher,   \* the thread running search: its position and locals
    \* the functions of the system applied on their own
    fn_call,    \* the function applied last, with its arguments
    fn_out      \* what it returned, with the locals the properties read

engineVars == <<low, high, clock, index, ncalls, adds, called, log, result, http>>
storeVars == <<store_texts, store_metadata, store_vectors, store_nn, adder, searcher>>
fnVars == <<fn_call, fn_out>>
vars == <<engineVars, storeVars, fnVars>>

----------------------------------------------------------------------------
(* Bounds of the model *)

MaxCalls == 2
MaxClock == 1
MaxChunks == 1
MaxTopK == 2
MaxStore == 3
MaxBatch == 2
MaxResults == 4
MaxSourceResults == 3

(* Program constants *)

batch_size == 100
similarity_weight == 60
top_score_weight == 25
consistency_weight == 15
confidence_threshold_low == 600000
confidence_threshold_high == 800000
n_neighbors_default == 5

SimUnit == 100 * 100
ConfUnit == 100 * SimUnit

Files == {"faq.md", "guide.md"}
\* similarities the index answers with: 0.3, 0.529, 0.6 and 1.0
SimVals == {3000, 5290, 6000, SimUnit}

\* threshold settings: the two defaults and 0.66, the confidence of a single
\* match of similarity 0.6
ThresholdVals == {confidence_threshold_low, 660000, confidence_threshold_high}

----------------------------------------------------------------------------
(* Helpers *)

Min(a, b) == IF a < b THEN a ELSE b
Max(a, b) == IF a > b THEN a ELSE b

RECURSIVE SumSeq(_)
SumSeq(s) == IF s = <<>> THEN 0 ELSE Head(s) + SumSeq(Tail(s))

RECURSIVE SqrtIter(_, _)
SqrtIter(v, r) ==
    LET r2 == (r + (v \div r)) \div 2
    IN  IF r2 >= r THEN r ELSE SqrtIter(v, r2)

\* floor of the square root
Isqrt(v) == IF v <= 0 THEN 0 ELSE SqrtIter(v, v)

\* round(x, 3) of a value in units of 1/unit, as a multiple of unit/1000
\* (ties to even, as Python rounds)
Round3(x, unit) ==
    LET step == unit \div 1000
        q == x \div step
        r == x % step
    IN  IF 2 * r > step \/ (2 * r = step /\ q % 2 = 1)
        THEN (q + 1) * step
        ELSE q * step

\* sequences without repetition over a set
RECURSIVE Perms(_)
Perms(S) ==
    IF S = {} THEN {<<>>}
    ELSE UNION {{<<x>> \o p : p \in Perms(S \ {x})} : x \in S}

PathLists == UNION {Perms(T) : T \in SUBSET Files}

Event(c, f, n, ok) == [call |-> c, file |-> f, n |-> n, ok |-> ok]

----------------------------------------------------------------------------
(* DocumentProcessor (src/src/rag_engine/document_processor.py)            *)
(*                                                                         *)
(* The file system is an input of each call: fs[f].readable is FALSE when  *)
(* opening or reading f raises, and fs[f].pieces is the number of chunks   *)
(* the text splitter makes of its content.                                 *)

\* a file splits into at most MaxChunks chunks, a large file (a long guide)
\* into one chunk more than an upsert batch holds
LargeFiles == {"guide.md"}
ChunkCounts(f) ==
    (0 .. MaxChunks) \cup (IF f \in LargeFiles THEN {batch_size + 1} ELSE {})
FileStates(f) ==
    {[readable |-> FALSE, pieces |-> 0]}
        \cup {[readable |-> TRUE, pieces |-> n] : n \in ChunkCounts(f)}
FileSystems(S) ==
    {fs \in [S -> UNION {FileStates(f) : f \in S}] : \A f \in S : fs[f] \in FileStates(f)}

\* process_file: raises, or returns one chunk per piece of the split text
process_file(fs, file_path) ==
    IF ~fs[file_path].readable
    THEN [raised |-> TRUE, chunks |-> <<>>]
    ELSE [raised |-> FALSE,
          chunks |-> [i \in 1 .. fs[file_path].pieces |->
                        [text |-> <<file_path, i - 1>>,
                         metadata |-> [source |-> file_path,
                                       chunk_index |-> i - 1]]]]

\* the loop of process_directory: a file that raises is logged and skipped
RECURSIVE process_directory_loop(_, _)
process_directory_loop(fs, listing) ==
    IF listing = <<>> THEN [all_chunks |-> <<>>, events |-> <<>>]
    ELSE LET p == process_file(fs, Head(listing))
             rest == process_directory_loop(fs, Tail(listing))
         IN  [all_chunks |-> p.chunks \o rest.all_chunks,
              events |-> <<Event("process_file", Head(listing),
                                 Len(p.chunks), ~p.raised)>> \o rest.events]

\* process_directory: raises when the directory does not exist
process_directory(exists, fs, listing) ==
    IF ~exists
    THEN [raised |-> TRUE, all_chunks |-> <<>>, events |-> <<>>]
    ELSE LET l == process_directory_loop(fs, listing)
         IN  [raised |-> FALSE, all_chunks |-> l.all_chunks, events |-> l.events]

----------------------------------------------------------------------------
(* PineconeVectorStore (src/src/rag_engine/vector_store.py)                *)

NumBatches(n) == (n + batch_size - 1) \div batch_size

MaxBatches == NumBatches(Cardinality(Files) * (batch_size + 1))

\* the id of the i-th vector (i from 0) of an add_documents call made at
\* second now: f"doc_{int(time.time())}_{i}".  The loop that builds the ids
\* does no I/O; its clock reads fall in the second the call is made in.
vector_id(now, i) == <<"doc", now, i>>

\* index.upsert(vectors=batch), the batch as a map from vector id to
\* metadata: a vector whose id is stored is overwritten
upsert(idx, batch) ==
    [id \in DOMAIN idx \cup DOMAIN batch |->
        IF id \in DOMAIN batch THEN batch[id] ELSE idx[id]]

\* add_documents.  failAt = 0: every upsert succeeds; failAt = b > 0: the
\* b-th upsert of the call raises (when the call makes that many).  The
\* batches before the failing one are stored.
add_documents(idx, now, embeddings, texts, metadatas, failAt) ==
    IF Len(embeddings) # Len(texts) \/ Len(texts) # Len(metadatas)
    THEN [raised |-> TRUE, index |-> idx, events |-> <<>>]
    ELSE LET n == Len(texts)
             nb == NumBatches(n)
             raised == failAt >= 1 /\ failAt <= nb
             done == IF raised THEN failAt - 1 ELSE nb
             stored == Min(n, done * batch_size)
             vectors == [id \in {vector_id(now, i) : i \in 0 .. stored - 1} |->
                            metadatas[id[3] + 1]]
             size(b) == Min(n, b * batch_size) - (b - 1) * batch_size
         IN  [raised |-> raised,
              index |-> upsert(idx, vectors),
              events |-> [b \in 1 .. (IF raised THEN failAt ELSE nb) |->
                            Event("upsert", "", size(b), b <= done)]]

----------------------------------------------------------------------------
(* RAGEngine ingestion (src/src/rag_engine/rag_engine.py)                  *)

\* (an embedding call that repeats a failed request once)
_generate_embeddings_retry(texts, ok) ==
    [raised |-> ~ok,
     embeddings |-> IF ok THEN [i \in DOMAIN texts |-> <<"vec", texts[i]>>]
                    ELSE <<>>,
     events |-> IF ok THEN <<Event("embed", "", Len(texts), TRUE)>>
                ELSE <<Event("embed", "", Len(texts), FALSE),
                       Event("embed", "", Len(texts), FALSE)>>]

\* _generate_embeddings: one request for the whole batch, one vector per
\* text; a failure of the provider is re-raised
_generate_embeddings(texts, ok) ==
    [raised |-> ~ok,
     embeddings |-> IF ok THEN [i \in DOMAIN texts |-> <<"vec", texts[i]>>]
                    ELSE <<>>,
     events |-> <<Event("embed", "", Len(texts), ok)>>]

\* (a loop that stops at the first file that raises)
RECURSIVE ingest_loop_stops(_, _)
ingest_loop_stops(fs, file_paths) ==
    IF file_paths = <<>>
    THEN [all_chunks |-> <<>>, failed_files |-> <<>>, events |-> <<>>]
    ELSE LET p == process_file(fs, Head(file_paths))
             rest == IF p.raised
                     THEN [all_chunks |-> <<>>, failed_files |-> <<>>, events |-> <<>>]
                     ELSE ingest_loop_stops(fs, Tail(file_paths))
         IN  [all_chunks |-> p.chunks \o rest.all_chunks,
              failed_files |-> (IF p.raised THEN <<Head(file_paths)>> ELSE <<>>)
                                   \o rest.failed_files,
              events |-> <<Event("process_file", Head(file_paths),
                                 Len(p.chunks), ~p.raised)>> \o rest.events]

\* the loop of ingest_documents: a file that raises goes to failed_files
RECURSIVE ingest_loop(_, _)
ingest_loop(fs, file_paths) ==
    IF file_paths = <<>>
    THEN [all_chunks |-> <<>>, failed_files |-> <<>>, events |-> <<>>]
    ELSE LET p == process_file(fs, Head(file_paths))
             rest == ingest_loop(fs, Tail(file_paths))
         IN  [all_chunks |-> p.chunks \o rest.all_chunks,
              failed_files |-> (IF p.raised THEN <<Head(file_paths)>> ELSE <<>>)
                                   \o rest.failed_files,
              events |-> <<Event("process_file", Head(file_paths),
                                 Len(p.chunks), ~p.raised)>> \o rest.events]

Texts(all_chunks) == [i \in DOMAIN all_chunks |-> all_chunks[i].text]
Metadatas(all_chunks) == [i \in DOMAIN all_chunks |-> all_chunks[i].metadata]

\* (an ingest that goes on to embed and add when there is no chunk)
ingest_documents_unguarded(idx, now, file_paths, fs, embedOk, failAt) ==
    LET l == ingest_loop(fs, file_paths)
        texts == Texts(l.all_chunks)
        e == _generate_embeddings(texts, embedOk)
        a == add_documents(idx, now, e.embeddings, texts,
                           Metadatas(l.all_chunks), failAt)
    IN  IF e.raised
        THEN [index |-> idx, events |-> l.events \o e.events,
              result |-> [success |-> FALSE,
                          message |-> "Ingestion failed",
                          failed_files |-> l.failed_files]]
        ELSE IF a.raised
        THEN [index |-> a.index, events |-> l.events \o e.events \o a.events,
              result |-> [success |-> FALSE,
                          message |-> "Ingestion failed",
                          failed_files |-> l.failed_files]]
        ELSE [index |-> a.index, events |-> l.events \o e.events \o a.events,
              result |-> [success |-> TRUE,
                          total_files |-> Len(file_paths),
                          failed_files |-> l.failed_files,
                          total_chunks |-> Len(l.all_chunks)]]

\* ingest_documents: the returned dict, the index afterwards, the calls made
ingest_documents(idx, now, file_paths, fs, embedOk, failAt) ==
    LET l == ingest_loop(fs, file_paths)
        texts == Texts(l.all_chunks)
        e == _generate_embeddings(texts, embedOk)
        a == add_documents(idx, now, e.embeddings, texts,
                           Metadatas(l.all_chunks), failAt)
    IN  IF l.all_chunks = <<>>
        THEN [index |-> idx, events |-> l.events,
              result |-> [success |-> FALSE,
                          message |-> "No chunks were successfully processed",
                          failed_files |-> l.failed_files]]
        ELSE IF e.raised
        THEN [index |-> idx, events |-> l.events \o e.events,
              result |-> [success |-> FALSE,
                          message |-> "Ingestion failed",
                          failed_files |-> l.failed_files]]
        ELSE IF a.raised
        THEN [index |-> a.index, events |-> l.events \o e.events \o a.events,
              result |-> [success |-> FALSE,
                          message |-> "Ingestion failed",
                          failed_files |-> l.failed_files]]
        ELSE [index |-> a.index, events |-> l.events \o e.events \o a.events,
              result |-> [success |-> TRUE,
                          total_files |-> Len(file_paths),
                          failed_files |-> l.failed_files,
                          total_chunks |-> Len(l.all_chunks)]]

\* ingest_directory
ingest_directory(idx, now, exists, listing, fs, embedOk, failAt) ==
    LET d == process_directory(exists, fs, listing)
        texts == Texts(d.all_chunks)
        e == _generate_embeddings(texts, embedOk)
        a == add_documents(idx, now, e.embeddings, texts,
                           Metadatas(d.all_chunks), failAt)
        unique == {d.all_chunks[i].metadata.source : i \in DOMAIN d.all_chunks}
    IN  IF d.raised
        THEN [index |-> idx, events |-> d.events,
              result |-> [success |-> FALSE,
                          message |-> "Directory ingestion failed"]]
        ELSE IF d.all_chunks = <<>>
        THEN [index |-> idx, events |-> d.events,
              result |-> [success |-> FALSE,
                          message |-> "No documents found or processed in directory"]]
        ELSE IF e.raised
        THEN [index |-> idx, events |-> d.events \o e.events,
              result |-> [success |-> FALSE,
                          message |-> "Directory ingestion failed"]]
        ELSE IF a.raised
        THEN [index |-> a.index, events |-> d.events \o e.events \o a.events,
              result |-> [success |-> FALSE,
                          message |-> "Directory ingestion failed"]]
        ELSE [index |-> a.index, events |-> d.events \o e.events \o a.events,
              result |-> [success |-> TRUE,
                          total_chunks |-> Len(d.all_chunks),
                          unique_sources |-> Cardinality(unique)]]

----------------------------------------------------------------------------
(* RAGEngine query (src/src/rag_engine/rag_engine.py)                      *)

\* (the range validators alone, without the check of the order)
RAGConfigRangeOnly(lo, hi) ==
    /\ 0 <= hi /\ hi <= ConfUnit
    /\ 0 <= lo /\ lo <= ConfUnit

\* RAGConfig's validators: both thresholds in [0, 1], low < high
RAGConfigValid(lo, hi) ==
    /\ 0 <= hi /\ hi <= ConfUnit
    /\ 0 <= lo /\ lo <= ConfUnit
    /\ ~(lo >= hi)

Similarities(results) == [i \in DOMAIN results |-> results[i].similarity]

\* _calculate_result_consistency, in 1e-4 units: max(0, 1 - std / 0.3) with
\* the population standard deviation np.std of the similarities
_calculate_result_consistency(results) ==
    IF Len(results) < 2 THEN SimUnit
    ELSE LET scores == Similarities(results)
             m == Len(scores)
             sq == [i \in DOMAIN scores |-> scores[i] * scores[i]]
             score_std == Isqrt(m * SumSeq(sq) - SumSeq(scores) * SumSeq(scores)) \div m
         IN  Max(0, SimUnit - ((score_std * 10) \div 3))

\* the consistency factor of _calculate_confidence:
\* self._calculate_result_consistency(search_results[:3])
engine_consistency(search_results) ==
    _calculate_result_consistency(
        SubSeq(search_results, 1, Min(3, Len(search_results))))

\* (the weighted sum, not brought into [0, 1])
confidence_unclamped(search_results) ==
    IF search_results = <<>> THEN 0
    ELSE ((SumSeq(Similarities(search_results)) * similarity_weight)
              \div Len(search_results))
             + search_results[1].similarity * top_score_weight
             + engine_consistency(search_results) * consistency_weight

\* _calculate_confidence, in 1e-6 units
_calculate_confidence(search_results) ==
    IF search_results = <<>> THEN 0
    ELSE LET sims == Similarities(search_results)
             top_score == search_results[1].similarity
             consistency == engine_consistency(search_results)
             confidence ==
                 ((SumSeq(sims) * similarity_weight) \div Len(sims))
                     + top_score * top_score_weight
                     + consistency * consistency_weight
         IN  Max(0, Min(ConfUnit, confidence))

\* the business decision of query
should_escalate_inclusive(confidence, lo) == confidence <= lo
should_escalate(confidence, lo) == confidence < lo
auto_response(confidence, hi) == confidence >= hi

\* d.get(k, default)
Get(d, k, default) == IF k \in DOMAIN d THEN d[k] ELSE default

\* _extract_sources: one entry per source, made from the first result of it
RECURSIVE extract_loop(_, _)
extract_loop(search_results, seen_sources) ==
    IF search_results = <<>> THEN <<>>
    ELSE LET r == Head(search_results)
             source == Get(r.metadata, "source", "unknown")
         IN  IF source \notin seen_sources
             THEN <<[source |-> source,
                     relevance_score |-> Round3(r.similarity, SimUnit)]>>
                      \o extract_loop(Tail(search_results),
                                      seen_sources \cup {source})
             ELSE extract_loop(Tail(search_results), seen_sources)

_extract_sources(search_results) == extract_loop(search_results, {})

\* similarity_search: the matches Pinecone answers with, formatted; a failed
\* index query is logged and an empty list returned
similarity_search(matches, ok) ==
    [results |-> IF ok
                 THEN [i \in DOMAIN matches |->
                          [metadata |-> [source |-> matches[i].source],
                           similarity |-> matches[i].score]]
                 ELSE <<>>,
     events |-> <<Event("search", "", IF ok THEN Len(matches) ELSE 0, ok)>>]

\* _generate_response: a failed completion is logged and an apology returned
_generate_response(ok) ==
    [text |-> IF ok THEN "generated answer" ELSE "apology: technical issue",
     events |-> <<Event("generate", "", 0, ok)>>]

no_results_scored ==
    [response |-> "no information: contact support",
     confidence |-> consistency_weight * SimUnit,
     sources |-> <<>>,
     should_escalate |-> TRUE,
     auto_response |-> FALSE,
     retrieved_chunks |-> 0,
     message |-> "No relevant information found in knowledge base"]

_create_no_results_response ==
    [response |-> "no information: contact support",
     confidence |-> 0,
     sources |-> <<>>,
     should_escalate |-> TRUE,
     auto_response |-> FALSE,
     retrieved_chunks |-> 0,
     message |-> "No relevant information found in knowledge base"]

_create_error_response(error_message) ==
    [response |-> "technical difficulties",
     confidence |-> 0,
     sources |-> <<>>,
     should_escalate |-> TRUE,
     auto_response |-> FALSE,
     retrieved_chunks |-> 0,
     error |-> error_message]

\* (a query that asks for the answer before it looks at the results)
query_generates_first(lo, hi, matches, embedOk, searchOk, genOk) ==
    LET e == _generate_embeddings(<<"question">>, embedOk)
        s == similarity_search(matches, searchOk)
        search_results == s.results
        confidence == _calculate_confidence(search_results)
        g == _generate_response(genOk)
    IN  IF e.raised
        THEN [events |-> e.events,
              result |-> _create_error_response("embedding failed")]
        ELSE IF search_results = <<>>
        THEN [events |-> e.events \o s.events \o g.events,
              result |-> _create_no_results_response]
        ELSE [events |-> e.events \o s.events \o g.events,
              result |-> [response |-> g.text,
                          confidence |-> Round3(confidence, ConfUnit),
                          sources |-> _extract_sources(search_results),
                          should_escalate |-> should_escalate(confidence, lo),
                          auto_response |-> auto_response(confidence, hi),
                          retrieved_chunks |-> Len(search_results),
                          search_results |-> search_results]]

\* query: the returned dict and the calls made
query(lo, hi, matches, embedOk, searchOk, genOk) ==
    LET e == _generate_embeddings(<<"question">>, embedOk)
        s == similarity_search(matches, searchOk)
        search_results == s.results
        confidence == _calculate_confidence(search_results)
        g == _generate_response(genOk)
    IN  IF e.raised
        THEN [events |-> e.events,
              result |-> _create_error_response("embedding failed")]
        ELSE IF search_results = <<>>
        THEN [events |-> e.events \o s.events,
              result |-> _create_no_results_response]
        ELSE [events |-> e.events \o s.events \o g.events,
              result |-> [response |-> g.text,
                          confidence |-> Round3(confidence, ConfUnit),
                          sources |-> _extract_sources(search_results),
                          should_escalate |-> should_escalate(confidence, lo),
                          auto_response |-> auto_response(confidence, hi),
                          retrieved_chunks |-> Len(search_results),
                          search_results |-> search_results]]

\* create_success_response (src/src/utils/helpers.py): the body the /query
\* route makes of an engine result, its flags computed from the confidence
\* it is passed
create_success_response(response, confidence, sources, lo, hi) ==
    [success |-> TRUE,
     response |-> response,
     confidence |-> Round3(confidence, ConfUnit),
     sources |-> sources,
     should_escalate |-> confidence < lo,
     auto_response |-> confidence >= hi]

\* create_error_response (src/src/utils/helpers.py)
create_error_response(message, error_type) ==
    [success |-> FALSE,
     response |-> message,
     confidence |-> 0,
     sources |-> <<>>,
     should_escalate |-> TRUE,
     auto_response |-> FALSE,
     error_type |-> error_type]

NoResponse == [status |-> 0]

\* process_query, the handler of POST /api/query (src/src/api/routes.py):
\* valid is FALSE for a request the handler refuses (not JSON, empty, not
\* a QueryRequest, a question validate_query_input refuses), available is
\* FALSE when the application runs without an engine; q is what
\* rag_engine.query returns for the request.  The status is decided by the
\* engine's should_escalate, the body is made by create_success_response
\* of the engine's response, reported confidence and sources.
process_query(valid, available, lo, hi, q) ==
    IF ~valid
    THEN [status |-> 400, engine_called |-> FALSE,
          body |-> create_error_response("invalid request", "validation_error")]
    ELSE IF ~available
    THEN [status |-> 503, engine_called |-> FALSE,
          body |-> create_error_response("RAG engine not available", "system_error")]
    ELSE LET r == q.result
             response_data ==
                 [retrieved_chunks |-> Get(r, "retrieved_chunks", 0)]
                     @@ create_success_response(r.response, r.confidence,
                                                Get(r, "sources", <<>>), lo, hi)
         IN  [status |-> IF Get(r, "should_escalate", FALSE) THEN 202 ELSE 200,
              engine_called |-> TRUE,
              body |-> response_data]

----------------------------------------------------------------------------
(* helpers (src/src/utils/helpers.py)                                      *)

\* default_weights of calculate_confidence, in hundredths
default_weights ==
    [similarity |-> similarity_weight,
     top_result |-> top_score_weight,
     consistency |-> consistency_weight]

\* calculate_result_consistency, in 1e-4 units
calculate_result_consistency(similarities) ==
    IF Len(similarities) < 2 THEN SimUnit
    ELSE LET mean_sim == SumSeq(similarities) \div Len(similarities)
             dev == [i \in DOMAIN similarities |->
                       (similarities[i] - mean_sim) * (similarities[i] - mean_sim)]
             variance == SumSeq(dev) \div Len(similarities)
             std_dev == Isqrt(variance)
         IN  Max(0, SimUnit - ((std_dev * 10) \div 3))

\* the consistency factor of calculate_confidence:
\* calculate_result_consistency(similarities), over all the results
helper_consistency(search_results) ==
    calculate_result_consistency(Similarities(search_results))

\* calculate_confidence, in 1e-6 units; weights is <<>> (None) or <<w>>.
\* No weights are refused: the score is computed with whatever is passed.
calculate_confidence(search_results, weights) ==
    IF search_results = <<>> THEN [raised |-> FALSE, confidence |-> 0]
    ELSE LET w == IF weights = <<>> THEN default_weights ELSE weights[1]
             similarities == Similarities(search_results)
             top_similarity == similarities[1]
             consistency == helper_consistency(search_results)
             confidence ==
                 ((SumSeq(similarities) * w.similarity) \div Len(similarities))
                     + top_similarity * w.top_result
                     + consistency * w.consistency
         IN  [raised |-> FALSE, confidence |-> Max(0, Min(ConfUnit, confidence))]

\* sources.sort(key=relevance_score, reverse=True): a stable sort
RECURSIVE SortByRelevance(_)
SortByRelevance(ss) ==
    IF ss = <<>> THEN <<>>
    ELSE LET sorted == SortByRelevance(SubSeq(ss, 1, Len(ss) - 1))
             e == ss[Len(ss)]
             k == Cardinality({i \in DOMAIN sorted :
                                  sorted[i].relevance_score >= e.relevance_score})
         IN  SubSeq(sorted, 1, k) \o <<e>> \o SubSeq(sorted, k + 1, Len(sorted))

\* the loop of format_sources: the first result of a source makes its entry;
\* chunk_count is 1 plus the number of results that name the same source
\* (a missing source reads "" here and "unknown" above) and differ from
\* that first result
RECURSIVE format_loop(_, _, _)
format_loop(search_results, i, seen_sources) ==
    IF i > Len(search_results) THEN <<>>
    ELSE LET r == search_results[i]
             source == Get(r.metadata, "source", "unknown")
             others == {j \in DOMAIN search_results :
                          /\ Get(search_results[j].metadata, "source", "") = source
                          /\ search_results[j] # r}
         IN  IF source \in seen_sources
             THEN format_loop(search_results, i + 1, seen_sources)
             ELSE <<[source |-> source,
                     relevance_score |-> Round3(r.similarity, SimUnit),
                     chunk_count |-> 1 + Cardinality(others)]>>
                      \o format_loop(search_results, i + 1,
                                     seen_sources \cup {source})

format_sources(search_results) ==
    SortByRelevance(format_loop(search_results, 1, {}))

\* what the index can answer a query with: at most top_k matches, each a
\* stored vector (never more matches of a source than vectors stored of it),
\* by score descending.  A match is the stored source and the score; the
\* stored text only goes into the generation prompt.
IsMatchList(stored, top_k, matches) ==
    /\ Len(matches) <= top_k
    /\ \A f \in Files :
          Cardinality({i \in DOMAIN matches : matches[i].source = f}) <= stored[f]
    /\ \A i, j \in DOMAIN matches : i < j => matches[i].score >= matches[j].score

MatchLists(idx, top_k) ==
    LET stored == [f \in Files |->
                     Cardinality({id \in DOMAIN idx : idx[id].source = f})]
    IN  {m \in UNION {[1 .. n -> [source : Files, score : SimVals]] : n \in 0 .. top_k} :
            IsMatchList(stored, top_k, m)}

\* the collaborator failures of one query: the first call that fails decides
\* the outcome (after a failed embedding no search is made, after a failed
\* search no generation)
QueryFaults ==
    {f \in [embedOk : BOOLEAN, searchOk : BOOLEAN, genOk : BOOLEAN] :
        /\ ~f.embedOk => f.searchOk /\ f.genOk
        /\ ~f.searchOk => f.genOk}

Range(s) == {s[i] : i \in DOMAIN s}

----------------------------------------------------------------------------
(* InMemoryVectorStore (src/rag-service/vector_store.py)                   *)
(*                                                                         *)
(* The service runs add and search on request threads that share the one   *)
(* store and take no lock.  A thread's step is one read or one write of an *)
(* attribute of the store; fit and kneighbors act on the estimator object  *)
(* in one step.  The lists only grow and kneighbors returns indices below  *)
(* the number of fitted rows, so the reads of texts[idx] and metadata[idx] *)
(* that build the results are made in one step.                            *)

dimension == 2

\* an array of shape (n, d) and its rows
Array(d, rows) == [n |-> Len(rows), d |-> d, rows |-> rows]

\* two rows of length d
Rows(d) == {[i \in 1 .. d |-> 1], [i \in 1 .. d |-> IF i = 1 THEN 1 ELSE 0]}
RowSeqs(d) == UNION {[1 .. n -> Rows(d)] : n \in 0 .. MaxBatch}

\* (the new rows in place of the stored ones)
vstack_new_rows_only(a, b) == Array(b.d, b.rows)

\* np.vstack((a, b))
vstack(a, b) == Array(a.d, a.rows \o b.rows)

\* NearestNeighbors(n_neighbors=k, metric="cosine"), not fitted yet
NearestNeighbors(k) == [n_neighbors |-> k, fitted |-> FALSE, fit_X |-> <<>>]

\* estimator.fit(X)
fit(e, X) == [e EXCEPT !.fitted = TRUE, !.fit_X = X.rows]

Dot(a, b) == SumSeq([i \in DOMAIN a |-> a[i] * b[i]])

\* cosine similarity in 1e-4 units
Cosine(a, b) ==
    (Dot(a, b) * SimUnit * SimUnit) \div Isqrt(Dot(a, a) * Dot(b, b) * SimUnit * SimUnit)

\* the indices (from 0) of the n rows nearest to q, nearest first; rows at
\* the same distance come in index order
RECURSIVE Nearest(_, _, _, _)
Nearest(X, q, n, taken) ==
    IF n = 0 THEN <<>>
    ELSE LET left == DOMAIN X \ taken
             best == CHOOSE i \in left :
                        \A j \in left :
                            \/ Cosine(X[i], q) > Cosine(X[j], q)
                            \/ Cosine(X[i], q) = Cosine(X[j], q) /\ i <= j
         IN  <<best - 1>> \o Nearest(X, q, n - 1, taken \cup {best})

\* estimator.kneighbors(q, n_neighbors=n): raises when the estimator is not
\* fitted, when n is not positive, and when n exceeds the fitted rows
kneighbors(e, q, n) ==
    IF ~e.fitted THEN [raised |-> TRUE, error |-> "NotFittedError", indices |-> <<>>]
    ELSE IF n <= 0 \/ n > Len(e.fit_X)
    THEN [raised |-> TRUE, error |-> "ValueError", indices |-> <<>>]
    ELSE [raised |-> FALSE, error |-> "", indices |-> Nearest(e.fit_X, q, n, {})]

\* results.sort(key=score, reverse=True): a stable sort, by insertion
RECURSIVE SortByScore(_)
SortByScore(rs) ==
    IF rs = <<>> THEN <<>>
    ELSE LET sorted == SortByScore(SubSeq(rs, 1, Len(rs) - 1))
             r == rs[Len(rs)]
             k == Cardinality({i \in DOMAIN sorted : sorted[i].score >= r.score})
         IN  SubSeq(sorted, 1, k) \o <<r>> \o SubSeq(sorted, k + 1, Len(sorted))

\* the loop of search that builds the results, and the final sort
build_results(ts, ms, fit_X, q, indices) ==
    SortByScore([k \in DOMAIN indices |->
                    [text |-> ts[indices[k] + 1],
                     score |-> Cosine(fit_X[indices[k] + 1], q),
                     metadata |-> ms[indices[k] + 1],
                     index |-> indices[k]]])

Idle == [pc |-> "idle"]

\* no function applied yet
FnInit ==
    /\ fn_call = [fn |-> "none"]
    /\ fn_out = [raised |-> FALSE]

StoreInit ==
    /\ store_texts = <<>>
    /\ store_metadata = <<>>
    /\ store_vectors = <<>>
    /\ store_nn = <<>>
    /\ adder = Idle
    /\ searcher = Idle

\* a thread that is not inside a call
Quiescent(t) == t.pc \in {"idle", "returned", "raised"}

\* (a check of the number of rows only)
add_rejects_count_only(vectors, texts) == vectors.n # Len(texts)

\* the two checks of add: either raises ValueError
add_rejects(vectors, texts) ==
    vectors.d # dimension \/ vectors.n # Len(texts)

\* add is called; its two checks raise ValueError or let the call go on
AddCall ==
    /\ Quiescent(adder)
    /\ \E d \in {dimension, dimension + 1} :
       \E rows \in RowSeqs(d), ntexts \in 0 .. MaxBatch, md \in {"m1", "m2"} :
          /\ Len(store_texts) + ntexts <= MaxStore
          /\ LET a == Array(d, rows)
                 ts == [i \in 1 .. ntexts |-> <<"text", Len(store_texts) + i>>]
             IN  adder' = IF add_rejects(a, ts)
                          THEN [pc |-> "raised", d |-> a.d, n |-> a.n,
                                ntexts |-> Len(ts)]
                          ELSE [pc |-> "loop", vectors |-> a, texts |-> ts,
                                metadata |-> md, i |-> 1]
    /\ UNCHANGED <<store_texts, store_metadata, store_vectors, store_nn, searcher>>
    /\ UNCHANGED <<engineVars, fnVars>>

\* for text in texts: self.texts.append(text)
AddAppendText ==
    /\ adder.pc = "loop"
    /\ adder.i <= Len(adder.texts)
    /\ store_texts' = Append(store_texts, adder.texts[adder.i])
    /\ adder' = [adder EXCEPT !.pc = "loop_metadata"]
    /\ UNCHANGED <<store_metadata, store_vectors, store_nn, searcher>>
    /\ UNCHANGED <<engineVars, fnVars>>

\* self.metadata.append(metadata or {})
AddAppendMetadata ==
    /\ adder.pc = "loop_metadata"
    /\ store_metadata' = Append(store_metadata, adder.metadata)
    /\ adder' = [adder EXCEPT !.pc = "loop", !.i = adder.i + 1]
    /\ UNCHANGED <<store_texts, store_vectors, store_nn, searcher>>
    /\ UNCHANGED <<engineVars, fnVars>>

\* self.vectors = vectors, or the stack of the stored and the new rows
AddStoreVectors ==
    /\ adder.pc = "loop"
    /\ adder.i > Len(adder.texts)
    /\ store_vectors' = IF store_vectors = <<>> THEN <<adder.vectors>>
                        ELSE <<vstack(store_vectors[1], adder.vectors)>>
    /\ adder' = [pc |-> "reindex"]
    /\ UNCHANGED <<store_texts, store_metadata, store_nn, searcher>>
    /\ UNCHANGED <<engineVars, fnVars>>

\* _reindex: self.nn = None for an empty store, else a new estimator
ReindexNew ==
    /\ adder.pc = "reindex"
    /\ IF store_vectors = <<>> \/ store_vectors[1].n = 0
       THEN /\ store_nn' = <<>>
            /\ adder' = [adder EXCEPT !.pc = "returned"]
       ELSE /\ store_nn' =
                  <<NearestNeighbors(Min(n_neighbors_default, store_vectors[1].n))>>
            /\ adder' = [adder EXCEPT !.pc = "fit"]
    /\ UNCHANGED <<store_texts, store_metadata, store_vectors, searcher>>
    /\ UNCHANGED <<engineVars, fnVars>>

\* self.nn.fit(self.vectors)
ReindexFit ==
    /\ adder.pc = "fit"
    /\ store_nn' = <<fit(store_nn[1], store_vectors[1])>>
    /\ adder' = [adder EXCEPT !.pc = "returned"]
    /\ UNCHANGED <<store_texts, store_metadata, store_vectors, searcher>>
    /\ UNCHANGED <<engineVars, fnVars>>

\* top_k as the service passes it on: int(data.get("top_k", 3)), any integer
TopKs == 0 .. MaxTopK

\* search is called: if self.nn is None: return [].  entries is the number of
\* texts the store holds when the call is made (kept for the properties).
SearchCall ==
    /\ Quiescent(searcher)
    /\ \E top_k \in TopKs, q \in Rows(dimension) :
          searcher' = IF store_nn = <<>>
                      THEN [pc |-> "returned", top_k |-> top_k, q |-> q,
                            entries |-> Len(store_texts), results |-> <<>>]
                      ELSE [pc |-> "len", top_k |-> top_k, q |-> q,
                            entries |-> Len(store_texts)]
    /\ UNCHANGED <<store_texts, store_metadata, store_vectors, store_nn, adder>>
    /\ UNCHANGED <<engineVars, fnVars>>

\* n = min(top_k, len(self.texts))
SearchLen ==
    /\ searcher.pc = "len"
    /\ searcher' = [pc |-> "kneighbors", top_k |-> searcher.top_k,
                    q |-> searcher.q, entries |-> searcher.entries,
                    len_texts |-> Len(store_texts),
                    n |-> Min(searcher.top_k, Len(store_texts))]
    /\ UNCHANGED <<store_texts, store_metadata, store_vectors, store_nn, adder>>
    /\ UNCHANGED <<engineVars, fnVars>>

\* self.nn.kneighbors(...), then the results are built and sorted
SearchNeighbors ==
    /\ searcher.pc = "kneighbors"
    /\ LET k == kneighbors(store_nn[1], searcher.q, searcher.n)
       IN  searcher' =
              IF k.raised
              THEN [pc |-> "raised", error |-> k.error,
                    top_k |-> searcher.top_k, q |-> searcher.q,
                    entries |-> searcher.entries,
                    len_texts |-> searcher.len_texts,
                    fitted |-> Len(store_nn[1].fit_X)]
              ELSE [pc |-> "returned",
                    top_k |-> searcher.top_k, q |-> searcher.q,
                    entries |-> searcher.entries,
                    len_texts |-> searcher.len_texts,
                    fitted |-> Len(store_nn[1].fit_X),
                    results |-> build_results(store_texts, store_metadata,
                                              store_nn[1].fit_X, searcher.q,
                                              k.indices)]
    /\ UNCHANGED <<store_texts, store_metadata, store_vectors, store_nn, adder>>
    /\ UNCHANGED <<engineVars, fnVars>>

NextStore ==
    \/ AddCall \/ AddAppendText \/ AddAppendMetadata \/ AddStoreVectors
    \/ ReindexNew \/ ReindexFit
    \/ SearchCall \/ SearchLen \/ SearchNeighbors

----------------------------------------------------------------------------
(* The engine as a state machine: one action per operation *)

ThresholdConfigs ==
    {c \in [low : ThresholdVals, high : ThresholdVals] : RAGConfigValid(c.low, c.high)}

Init ==
    /\ \E c \in ThresholdConfigs : low = c.low /\ high = c.high
    /\ clock = 0
    /\ index = <<>>
    /\ ncalls = 0
    /\ adds = <<>>
    /\ called = [op |-> "none"]
    /\ log = <<>>
    /\ result = [success |-> TRUE]
    /\ http = NoResponse
    /\ StoreInit
    /\ FnInit

\* a second passes
Tick ==
    /\ clock < MaxClock
    /\ clock' = clock + 1
    /\ UNCHANGED <<low, high, index, ncalls, adds, called, log, result, http>>
    /\ UNCHANGED <<storeVars, fnVars>>

\* the add_documents calls among the events of an operation: the chunks
\* passed (the upserted batches and the one that raised) and the outcome
AddsOf(events) ==
    LET ups == SelectSeq(events, LAMBDA e : e.call = "upsert")
    IN  IF ups = <<>> THEN <<>>
        ELSE <<[chunks |-> SumSeq([i \in DOMAIN ups |-> ups[i].n]),
                ok |-> \A i \in DOMAIN ups : ups[i].ok]>>

IngestDocuments ==
    /\ ncalls < MaxCalls
    /\ \E file_paths \in PathLists :
       \E fs \in FileSystems(Range(file_paths)), embedOk \in BOOLEAN :
       \E failAt \in 0 .. (IF embedOk
                            THEN NumBatches(Len(ingest_loop(fs, file_paths).all_chunks))
                            ELSE 0) :
          LET r == ingest_documents(index, clock, file_paths, fs, embedOk, failAt)
          IN  /\ index' = r.index
              /\ log' = r.events
              /\ result' = r.result
              /\ adds' = adds \o AddsOf(r.events)
              /\ called' = [op |-> "ingest_documents",
                            file_paths |-> file_paths, fs |-> fs]
    /\ ncalls' = ncalls + 1
    /\ http' = NoResponse
    /\ UNCHANGED <<low, high, clock>>
    /\ UNCHANGED <<storeVars, fnVars>>

IngestDirectory ==
    /\ ncalls < MaxCalls
    /\ \E exists \in BOOLEAN :
       \E listing \in (IF exists THEN PathLists ELSE {<<>>}) :
       \E fs \in FileSystems(Range(listing)), embedOk \in BOOLEAN :
       \E failAt \in 0 .. (IF embedOk
                            THEN NumBatches(Len(process_directory_loop(fs, listing).all_chunks))
                            ELSE 0) :
          LET r == ingest_directory(index, clock, exists, listing, fs, embedOk, failAt)
          IN  /\ index' = r.index
              /\ log' = r.events
              /\ result' = r.result
              /\ adds' = adds \o AddsOf(r.events)
              /\ called' = [op |-> "ingest_directory", exists |-> exists,
                            listing |-> listing, fs |-> fs]
    /\ ncalls' = ncalls + 1
    /\ http' = NoResponse
    /\ UNCHANGED <<low, high, clock>>
    /\ UNCHANGED <<storeVars, fnVars>>

\* (a query that drops the entries of the index)
QueryEvicts ==
    /\ ncalls < MaxCalls
    /\ log' = <<>>
    /\ result' = _create_no_results_response
    /\ called' = [op |-> "query", top_k |-> 1]
    /\ index' = <<>>
    /\ ncalls' = ncalls + 1
    /\ http' = NoResponse
    /\ UNCHANGED <<low, high, clock, adds>>
    /\ UNCHANGED <<storeVars, fnVars>>

Query ==
    /\ ncalls < MaxCalls
    /\ \E top_k \in 1 .. MaxTopK, f \in QueryFaults :
       \E matches \in (IF f.embedOk /\ f.searchOk
                        THEN MatchLists(index, top_k) ELSE {<<>>}) :
          LET r == query(low, high, matches, f.embedOk, f.searchOk, f.genOk)
          IN  /\ log' = r.events
              /\ result' = r.result
              /\ called' = [op |-> "query", top_k |-> top_k]
    /\ ncalls' = ncalls + 1
    /\ http' = NoResponse
    /\ UNCHANGED <<low, high, clock, index, adds>>
    /\ UNCHANGED <<storeVars, fnVars>>

\* a POST /api/query request, handled by the application's engine
ProcessQuery ==
    /\ ncalls < MaxCalls
    /\ \E valid \in BOOLEAN, top_k \in 1 .. MaxTopK, f \in QueryFaults :
       \E matches \in (IF valid /\ f.embedOk /\ f.searchOk
                        THEN MatchLists(index, top_k) ELSE {<<>>}) :
          LET q == query(low, high, matches, f.embedOk, f.searchOk, f.genOk)
              h == process_query(valid, TRUE, low, high, q)
          IN  /\ http' = [status |-> h.status, body |-> h.body]
              /\ log' = (IF h.engine_called THEN q.events ELSE <<>>)
              /\ result' = (IF h.engine_called THEN q.result ELSE result)
              /\ called' = [op |-> "process_query", top_k |-> top_k]
    /\ ncalls' = ncalls + 1
    /\ UNCHANGED <<low, high, clock, index, adds>>
    /\ UNCHANGED <<storeVars, fnVars>>

Next == Tick \/ IngestDocuments \/ IngestDirectory \/ Query \/ ProcessQuery

Spec == Init /\ [][Next]_vars

\* the in-memory store under concurrent add and search
InitStore ==
    /\ low = confidence_threshold_low
    /\ high = confidence_threshold_high
    /\ clock = 0
    /\ index = <<>>
    /\ ncalls = 0
    /\ adds = <<>>
    /\ called = [op |-> "none"]
    /\ log = <<>>
    /\ result = [success |-> TRUE]
    /\ http = NoResponse
    /\ StoreInit
    /\ FnInit

SpecStore == InitStore /\ [][NextStore]_vars

\* the in-memory store with its calls serialized: a call is made only when
\* no other call is in progress
SeqAddCall == Quiescent(searcher) /\ AddCall

SeqSearchCall == Quiescent(adder) /\ SearchCall

NextStoreSeq ==
    \/ SeqAddCall \/ AddAppendText \/ AddAppendMetadata \/ AddStoreVectors
    \/ ReindexNew \/ ReindexFit
    \/ SeqSearchCall \/ SearchLen \/ SearchNeighbors

SpecStoreSeq == InitStore /\ [][NextStoreSeq]_vars

----------------------------------------------------------------------------
(* The scorers and the source formatters applied to lists of results *)

\* similarities a result can carry: cosine values, and values out of [0, 1]
FnSims == {0 - 5000, 3000, 6000, SimUnit, 12000}

\* lists of results for the scorers (the source plays no part in the score)
ScoredLists ==
    UNION {[1 .. n -> [metadata : {[source |-> "faq.md"]}, similarity : FnSims]] :
              n \in 0 .. MaxResults}

\* the metadata of a result: of a file, or without a source
FnMetadata == {[source |-> f] : f \in Files} \cup {[document_type |-> "general"]}

\* lists of results for the source formatters, in any order
SourceLists ==
    UNION {[1 .. n -> [metadata : FnMetadata, similarity : SimVals]] :
              n \in 0 .. MaxSourceResults}

\* the weights argument of calculate_confidence: None, the defaults, weights
\* that sum to 1.5 and weights that sum to 0.5
WeightArgs ==
    {<<>>, <<default_weights>>,
     <<[similarity |-> 50, top_result |-> 50, consistency |-> 50]>>,
     <<[similarity |-> 30, top_result |-> 10, consistency |-> 10]>>}

\* The functions keep no state: a behaviour applies one of them once.

EngineConfidence ==
    /\ fn_call.fn = "none"
    /\ \E rs \in ScoredLists :
          /\ fn_call' = [fn |-> "_calculate_confidence", search_results |-> rs]
          /\ fn_out' = [raised |-> FALSE,
                        confidence |-> _calculate_confidence(rs),
                        consistency |-> engine_consistency(rs)]
    /\ UNCHANGED <<engineVars, storeVars>>

HelperConfidence ==
    /\ fn_call.fn = "none"
    /\ \E rs \in ScoredLists, w \in WeightArgs :
          /\ fn_call' = [fn |-> "calculate_confidence", search_results |-> rs,
                         weights |-> w]
          /\ fn_out' = [raised |-> calculate_confidence(rs, w).raised,
                        confidence |-> calculate_confidence(rs, w).confidence,
                        consistency |-> helper_consistency(rs)]
    /\ UNCHANGED <<engineVars, storeVars>>

ExtractSources ==
    /\ fn_call.fn = "none"
    /\ \E rs \in SourceLists :
          /\ fn_call' = [fn |-> "_extract_sources", search_results |-> rs]
          /\ fn_out' = [raised |-> FALSE, sources |-> _extract_sources(rs)]
    /\ UNCHANGED <<engineVars, storeVars>>

FormatSources ==
    /\ fn_call.fn = "none"
    /\ \E rs \in SourceLists :
          /\ fn_call' = [fn |-> "format_sources", search_results |-> rs]
          /\ fn_out' = [raised |-> FALSE, sources |-> format_sources(rs)]
    /\ UNCHANGED <<engineVars, storeVars>>

\* settings read from the environment: thresholds in and out of [0, 1]
\* (1e-6 units), chunk sizes and overlaps (characters)
EnvThresholds ==
    {0 - 100000, 0, confidence_threshold_low, confidence_threshold_high,
     ConfUnit, ConfUnit + 100000}
EnvChunkSizes == {0 - 1, 0, 50, 500}
EnvChunkOverlaps == {0 - 1, 0, 50, 500, 600}

\* RecursiveCharacterTextSplitter(chunk_size, chunk_overlap, ...): the
\* library raises ValueError for an overlap larger than the chunk size;
\* its later releases (strict) also for chunk_size <= 0 and for a negative
\* overlap
text_splitter_raises(chunk_size, chunk_overlap, strict) ==
    \/ chunk_overlap > chunk_size
    \/ strict /\ (chunk_size <= 0 \/ chunk_overlap < 0)

\* RAGConfig(): the settings are read and validated; the validators cover
\* the two thresholds only
LoadConfig ==
    /\ fn_call.fn = "none"
    /\ \E hi \in EnvThresholds, lo \in EnvThresholds,
          size \in EnvChunkSizes, overlap \in EnvChunkOverlaps :
          /\ fn_call' = [fn |-> "RAGConfig",
                         confidence_threshold_high |-> hi,
                         confidence_threshold_low |-> lo,
                         chunk_size |-> size,
                         chunk_overlap |-> overlap]
          /\ fn_out' = [raised |-> ~RAGConfigValid(lo, hi)]
    /\ UNCHANGED <<engineVars, storeVars>>

\* DocumentProcessor(), built by RAGEngine() from the accepted configuration
NewDocumentProcessor ==
    /\ fn_call.fn = "RAGConfig"
    /\ ~fn_out.raised
    /\ \E strict \in BOOLEAN :
          fn_out' = [raised |-> text_splitter_raises(fn_call.chunk_size,
                                                    fn_call.chunk_overlap, strict)]
    /\ fn_call' = [fn_call EXCEPT !.fn = "DocumentProcessor"]
    /\ UNCHANGED <<engineVars, storeVars>>

\* pairs of result lists for a scorer applied twice with the same weights:
\* lists over the similarities 0.3, 0.6 and 1.0
PairSims == {3000, 6000, SimUnit}
PairLists ==
    UNION {[1 .. n -> [metadata : {[source |-> "faq.md"]}, similarity : PairSims]] :
              n \in 1 .. MaxResults}

\* weights of the second kind: None, and weights that sum to 1.0 with a
\* negative similarity weight (-0.5, 1.0, 0.5)
PairWeightArgs ==
    {<<>>, <<[similarity |-> 0 - 50, top_result |-> 100, consistency |-> 50]>>}

\* the three factors of a score, the average as the exact fraction sum / n
Factors(rs, consistency) ==
    [sum |-> SumSeq(Similarities(rs)), n |-> Len(rs),
     top |-> rs[1].similarity, consistency |-> consistency]

EngineConfidenceTwice ==
    /\ fn_call.fn = "none"
    /\ \E a \in PairLists, b \in PairLists :
          /\ fn_call' = [fn |-> "_calculate_confidence twice",
                         a |-> Factors(a, engine_consistency(a)),
                         b |-> Factors(b, engine_consistency(b))]
          /\ fn_out' = [raised |-> FALSE,
                        a |-> _calculate_confidence(a),
                        b |-> _calculate_confidence(b)]
    /\ UNCHANGED <<engineVars, storeVars>>

HelperConfidenceTwice ==
    /\ fn_call.fn = "none"
    /\ \E a \in PairLists, b \in PairLists, w \in PairWeightArgs :
          /\ fn_call' = [fn |-> "calculate_confidence twice",
                         a |-> Factors(a, helper_consistency(a)),
                         b |-> Factors(b, helper_consistency(b)),
                         weights |-> w]
          /\ fn_out' = [raised |-> FALSE,
                        a |-> calculate_confidence(a, w).confidence,
                        b |-> calculate_confidence(b, w).confidence]
    /\ UNCHANGED <<engineVars, storeVars>>

\* file names are sequences of characters
UpperCase ==
    <<"A", "B", "C", "D", "E", "F", "G", "H", "I", "J", "K", "L", "M",
      "N", "O", "P", "Q", "R", "S", "T", "U", "V", "W", "X", "Y", "Z">>
LowerCase ==
    <<"a", "b", "c", "d", "e", "f", "g", "h", "i", "j", "k", "l", "m",
      "n", "o", "p", "q", "r", "s", "t", "u", "v", "w", "x", "y", "z">>

\* str.lower
lower_char(c) ==
    IF \E i \in DOMAIN UpperCase : UpperCase[i] = c
    THEN LowerCase[CHOOSE i \in DOMAIN UpperCase : UpperCase[i] = c]
    ELSE c
lower(s) == [i \in DOMAIN s |-> lower_char(s[i])]

\* keyword in name
in(keyword, name) ==
    \E i \in 0 .. (Len(name) - Len(keyword)) :
        SubSeq(name, i + 1, i + Len(keyword)) = keyword

\* the keyword lists of _infer_document_type
faq_keywords ==
    {<<"f", "a", "q">>,
     <<"q", "u", "e", "s", "t", "i", "o", "n">>,
     <<"q", "&", "a">>}
policy_keywords ==
    {<<"p", "o", "l", "i", "c", "y">>,
     <<"t", "e", "r", "m", "s">>,
     <<"c", "o", "n", "d", "i", "t", "i", "o", "n">>}
return_policy_keywords ==
    {<<"r", "e", "t", "u", "r", "n">>,
     <<"r", "e", "f", "u", "n", "d">>,
     <<"e", "x", "c", "h", "a", "n", "g", "e">>}
shipping_info_keywords ==
    {<<"s", "h", "i", "p", "p", "i", "n", "g">>,
     <<"d", "e", "l", "i", "v", "e", "r", "y">>,
     <<"s", "h", "i", "p">>}
product_info_keywords ==
    {<<"p", "r", "o", "d", "u", "c", "t">>,
     <<"c", "a", "t", "a", "l", "o", "g">>,
     <<"i", "t", "e", "m">>}
support_guide_keywords ==
    {<<"s", "u", "p", "p", "o", "r", "t">>,
     <<"h", "e", "l", "p">>,
     <<"g", "u", "i", "d", "e">>}

\* (the keywords looked up in the name as it is written)
_infer_document_type_as_written(name) ==
    IF \E keyword \in faq_keywords : in(keyword, name) THEN "faq"
    ELSE IF \E keyword \in policy_keywords : in(keyword, name) THEN "policy"
    ELSE IF \E keyword \in return_policy_keywords : in(keyword, name)
    THEN "return_policy"
    ELSE IF \E keyword \in shipping_info_keywords : in(keyword, name)
    THEN "shipping_info"
    ELSE IF \E keyword \in product_info_keywords : in(keyword, name)
    THEN "product_info"
    ELSE IF \E keyword \in support_guide_keywords : in(keyword, name)
    THEN "support_guide"
    ELSE "general"

\* _infer_document_type: the chain of tests on the lower-cased file name
_infer_document_type(name) ==
    LET name_lower == lower(name)
    IN  IF \E keyword \in faq_keywords : in(keyword, name_lower) THEN "faq"
        ELSE IF \E keyword \in policy_keywords : in(keyword, name_lower)
        THEN "policy"
        ELSE IF \E keyword \in return_policy_keywords : in(keyword, name_lower)
        THEN "return_policy"
        ELSE IF \E keyword \in shipping_info_keywords : in(keyword, name_lower)
        THEN "shipping_info"
        ELSE IF \E keyword \in product_info_keywords : in(keyword, name_lower)
        THEN "product_info"
        ELSE IF \E keyword \in support_guide_keywords : in(keyword, name_lower)
        THEN "support_guide"
        ELSE "general"

\* file names: one or two of these parts and the extension
NameParts ==
    {<<"F", "A", "Q">>,
     <<"f", "a">>,
     <<"q">>,
     <<"Q", "&", "A">>,
     <<"P", "o", "l", "i", "c", "y">>,
     <<"t", "e", "r", "m", "s">>,
     <<"R", "e", "t", "u", "r", "n">>,
     <<"r", "e", "f", "u", "n", "d">>,
     <<"S", "h", "i", "p">>,
     <<"d", "e", "l", "i", "v", "e", "r", "y">>,
     <<"I", "t", "e", "m">>,
     <<"c", "a", "t", "a", "l", "o", "g">>,
     <<"H", "e", "l", "p">>,
     <<"g", "u", "i", "d", "e">>,
     <<"n", "o", "t", "e", "s">>,
     <<"_">>}
Extension == <<".", "m", "d">>
FileNames ==
    {p \o Extension : p \in NameParts}
        \cup {p \o q \o Extension : p \in NameParts, q \in NameParts}

InferDocumentType ==
    /\ fn_call.fn = "none"
    /\ \E name \in FileNames :
          /\ fn_call' = [fn |-> "_infer_document_type", name |-> name]
          /\ fn_out' = [raised |-> FALSE,
                        document_type |-> _infer_document_type(name)]
    /\ UNCHANGED <<engineVars, storeVars>>

NextFn ==
    \/ EngineConfidence \/ HelperConfidence \/ ExtractSources \/ FormatSources
    \/ LoadConfig \/ NewDocumentProcessor
    \/ InferDocumentType
    \/ EngineConfidenceTwice \/ HelperConfidenceTwice

SpecFn == InitStore /\ [][NextFn]_vars

----------------------------------------------------------------------------
(* Properties *)

Failed(call) == \E i \in DOMAIN log : log[i].call = call /\ ~log[i].ok

\* the chunks of file f, as the index stores them
Stored(f, i) == \E id \in DOMAIN index : index[id] = [source |-> f, chunk_index |-> i]

C2_NoResultsEscalates ==
    (called.op = "query"
        /\ \E i \in DOMAIN log : log[i].call = "search" /\ log[i].n = 0) =>
        /\ result.confidence = 0
        /\ result.should_escalate
        /\ ~result.auto_response
        /\ result.sources = <<>>
        /\ result.retrieved_chunks = 0

\* a search that succeeded and matched nothing, in a non-empty index
C2_Witness ==
    /\ called.op = "query"
    /\ DOMAIN index # {}
    /\ \E i \in DOMAIN log : log[i].call = "search" /\ log[i].n = 0 /\ log[i].ok
    /\ result.should_escalate
    /\ result.confidence = 0

\* C3: when a collaborator call of a query fails (embedding, index search or
\* answer generation), the outcome has confidence 0.0, no sources,
\* should_escalate and not auto_response.
C3_FailureDegrades ==
    (called.op = "query" /\ \E i \in DOMAIN log : ~log[i].ok) =>
        /\ result.confidence = 0
        /\ result.sources = <<>>
        /\ result.should_escalate
        /\ ~result.auto_response

\* C4: an outcome caused by an embedding or index-search failure carries an
\* error field, and the outcome of a search that found nothing does not.
C4_FailureDistinguishable ==
    called.op = "query" =>
        /\ (Failed("embed") \/ Failed("search")) => "error" \in DOMAIN result
        /\ (\E i \in DOMAIN log : log[i].call = "search" /\ log[i].ok /\ log[i].n = 0)
               => "error" \notin DOMAIN result

\* C5: after add_documents calls that all succeeded, the index holds one
\* entry for every chunk added: no call overwrote an entry of an earlier one.
C5_OneEntryPerChunk ==
    (\A i \in DOMAIN adds : adds[i].ok) =>
        Cardinality(DOMAIN index) = SumSeq([i \in DOMAIN adds |-> adds[i].chunks])

\* C6: an ingest whose add_documents call raises leaves the index as it was
\* and reports success = false.
C6_AddIsAtomic ==
    [][(ncalls' # ncalls
          /\ \E i \in DOMAIN log' : log'[i].call = "upsert" /\ ~log'[i].ok)
        => (index' = index /\ result'.success = FALSE)]_vars

\* C7: a search (of top_k >= 1) that runs while an add is in progress sees
\* the whole store before the add or the whole store after it: the search
\* does not raise, and the number of texts it read is the number of rows the
\* search structure it used was fitted over.
C7_SearchSeesWholeAdd ==
    /\ ~(searcher.pc = "raised" /\ searcher.top_k >= 1)
    /\ (searcher.pc = "returned" /\ "fitted" \in DOMAIN searcher) =>
           searcher.len_texts = searcher.fitted

\* C8: ingest_documents processes every file of the list; the files whose
\* processing raises are exactly failed_files, in every result; the chunks
\* of all the other files go into the one embedding request, and when that
\* request and the index add succeed they are in the index after the call.
C8_FileFailureIsolated ==
    called.op = "ingest_documents" =>
        LET paths == called.file_paths
            fs == called.fs
            good == SelectSeq(paths, LAMBDA f : fs[f].readable)
            total == SumSeq([i \in DOMAIN good |-> fs[good[i]].pieces])
        IN  /\ result.failed_files = SelectSeq(paths, LAMBDA f : ~fs[f].readable)
            /\ \A k \in DOMAIN paths :
                  /\ k \in DOMAIN log
                  /\ log[k].call = "process_file"
                  /\ log[k].file = paths[k]
            /\ total > 0 =>
                  \E i \in DOMAIN log : log[i].call = "embed" /\ log[i].n = total
            /\ (total > 0 /\ ~Failed("embed") /\ ~Failed("upsert")) =>
                  /\ result.success
                  /\ result.total_chunks = total
                  /\ \A k \in DOMAIN good :
                        \A i \in 0 .. fs[good[k]].pieces - 1 : Stored(good[k], i)

\* a list with a file that fails before a file that yields chunks, ingested
C8_Witness ==
    /\ called.op = "ingest_documents"
    /\ Len(called.file_paths) = 2
    /\ ~called.fs[called.file_paths[1]].readable
    /\ called.fs[called.file_paths[2]].readable
    /\ called.fs[called.file_paths[2]].pieces > 0
    /\ result.success
    /\ result.failed_files = <<called.file_paths[1]>>
    /\ Stored(called.file_paths[2], 0)

\* C9: in an ingest of several documents an embedding failure is recorded
\* as the failure of one document, and the chunks of the other documents
\* are still embedded and added to the index.
C9_EmbeddingFailureIsolated ==
    (called.op = "ingest_documents"
        /\ Cardinality({g \in Range(called.file_paths) :
                            called.fs[g].readable /\ called.fs[g].pieces > 0}) >= 2
        /\ Failed("embed")) =>
        \E f \in Range(called.file_paths) :
            /\ f \in Range(result.failed_files)
            /\ \A g \in Range(called.file_paths) \ {f} :
                  called.fs[g].readable =>
                      \A i \in 0 .. called.fs[g].pieces - 1 : Stored(g, i)

\* C10: every file that fails during an ingest, through ingest_documents or
\* through ingest_directory, is named as a failed item in the result.
C10_FailuresReported ==
    /\ called.op = "ingest_documents" =>
          \A f \in Range(called.file_paths) :
              ~called.fs[f].readable =>
                  "failed_files" \in DOMAIN result /\ f \in Range(result.failed_files)
    /\ called.op = "ingest_directory" =>
          \A f \in Range(called.listing) :
              ~called.fs[f].readable =>
                  "failed_files" \in DOMAIN result /\ f \in Range(result.failed_files)

\* C11: a search of k on a store that holds n entries (no other call in
\* progress) does not raise and returns exactly min(k, n) results, by score
\* descending: none when n = 0, n when k > n.
C11_SearchReturnsMinKN ==
    (searcher.pc \in {"returned", "raised"}) =>
        /\ searcher.pc = "returned"
        /\ Len(searcher.results) = Min(searcher.top_k, searcher.entries)
        /\ \A i, j \in DOMAIN searcher.results :
              i < j => searcher.results[i].score >= searcher.results[j].score

\* C12: add raises for every batch whose vectors do not have the store's
\* dimension, and an add that raises leaves texts, metadata, vectors and the
\* search structure as they were.
C12_RejectedAddChangesNothing ==
    [][(Quiescent(adder) /\ adder' # adder) =>
          /\ adder'.pc = "loop" => adder'.vectors.d = dimension
          /\ adder'.pc = "raised" =>
                UNCHANGED <<store_texts, store_metadata, store_vectors, store_nn>>]_vars

\* a batch of the wrong dimension rejected by a store that holds entries
C12_Witness ==
    /\ adder.pc = "raised"
    /\ adder.d # dimension
    /\ adder.n = adder.ntexts
    /\ adder.n > 0
    /\ store_texts # <<>>
    /\ store_nn # <<>>

SourceOf(r) == Get(r.metadata, "source", "unknown")

\* the results of a list that come from a source
ResultsOf(rs, source) == {i \in DOMAIN rs : SourceOf(rs[i]) = source}

\* C14: for every list of results, in any order, the source list has exactly
\* one entry per distinct source, and the entry's relevance_score is the
\* highest similarity (rounded to 3 decimals) of the results of that source.
C14_HighestScorePerSource ==
    (fn_call.fn \in {"_extract_sources", "format_sources"}) =>
        LET rs == fn_call.search_results
            sources == fn_out.sources
        IN  /\ {sources[k].source : k \in DOMAIN sources}
                   = {SourceOf(rs[i]) : i \in DOMAIN rs}
            /\ \A k, l \in DOMAIN sources :
                  sources[k].source = sources[l].source => k = l
            /\ \A k \in DOMAIN sources :
                  /\ \E i \in ResultsOf(rs, sources[k].source) :
                        sources[k].relevance_score = Round3(rs[i].similarity, SimUnit)
                  /\ \A i \in ResultsOf(rs, sources[k].source) :
                        sources[k].relevance_score >= Round3(rs[i].similarity, SimUnit)

\* C15: every source entry reports a chunk_count, the number of results
\* whose source is the entry's source, also when two results of a source are
\* identical and when results carry no source.
C15_ChunkCountPerSource ==
    (fn_call.fn \in {"_extract_sources", "format_sources"}) =>
        \A k \in DOMAIN fn_out.sources :
            /\ "chunk_count" \in DOMAIN fn_out.sources[k]
            /\ fn_out.sources[k].chunk_count
                  = Cardinality(ResultsOf(fn_call.search_results,
                                          fn_out.sources[k].source))

\* C16: the confidence score of either scorer lies in [0, 1] for every list
\* of results, whatever the similarities, and is 0.0 for the empty list.
C16_ConfidenceInUnitInterval ==
    (fn_call.fn \in {"_calculate_confidence", "calculate_confidence"}) =>
        /\ 0 <= fn_out.confidence
        /\ fn_out.confidence <= ConfUnit
        /\ fn_call.search_results = <<>> => fn_out.confidence = 0

\* a list whose similarities exceed 1.0, scored 1.0
C16_Witness ==
    /\ fn_call.fn = "_calculate_confidence"
    /\ fn_call.search_results # <<>>
    /\ \A i \in DOMAIN fn_call.search_results :
          fn_call.search_results[i].similarity > SimUnit
    /\ fn_out.confidence = ConfUnit

\* the first min(3, n) results of a list
TopThree(rs) == SubSeq(rs, 1, Min(3, Len(rs)))

\* C17: in both scorers the consistency factor is 1.0 for fewer than 2
\* results and otherwise max(0, 1 - stddev / 0.3) over the similarities of
\* the first min(3, n) results only.
C17_ConsistencyOverTopThree ==
    /\ fn_call.fn = "_calculate_confidence" =>
          fn_out.consistency
              = _calculate_result_consistency(TopThree(fn_call.search_results))
    /\ fn_call.fn = "calculate_confidence" =>
          fn_out.consistency
              = calculate_result_consistency(
                    Similarities(TopThree(fn_call.search_results)))

\* C18: weights that do not sum to 1.0 are rejected, not used to compute a
\* score, and the default weights are accepted.
C18_WeightsValidated ==
    fn_call.fn = "calculate_confidence" =>
        LET w == IF fn_call.weights = <<>> THEN default_weights
                 ELSE fn_call.weights[1]
            total == w.similarity + w.top_result + w.consistency
        IN  fn_out.raised <=> total # 100

\* C19: a configuration is accepted only if 0 <= low < high <= 1 (and every
\* such configuration is accepted), so nothing is built from, and no query
\* routed with, thresholds that break it.
C19_ThresholdsValidated ==
    /\ fn_call.fn = "RAGConfig" =>
          (~fn_out.raised <=>
              /\ 0 <= fn_call.confidence_threshold_low
              /\ fn_call.confidence_threshold_low < fn_call.confidence_threshold_high
              /\ fn_call.confidence_threshold_high <= ConfUnit)
    /\ fn_call.fn = "DocumentProcessor" =>
          /\ 0 <= fn_call.confidence_threshold_low
          /\ fn_call.confidence_threshold_low < fn_call.confidence_threshold_high
          /\ fn_call.confidence_threshold_high <= ConfUnit
    /\ 0 <= low /\ low < high /\ high <= ConfUnit

\* equal thresholds, each in range, refused
C19_Witness ==
    /\ fn_call.fn = "RAGConfig"
    /\ fn_call.confidence_threshold_low = fn_call.confidence_threshold_high
    /\ 0 <= fn_call.confidence_threshold_low
    /\ fn_call.confidence_threshold_high <= ConfUnit
    /\ fn_out.raised

\* C20: a configuration with chunk_overlap >= chunk_size, or with
\* chunk_size <= 0, is refused at startup: by RAGConfig, or at the latest
\* when the document processor is built from it.
C20_ChunkingValidated ==
    (fn_call.fn = "DocumentProcessor"
        /\ (fn_call.chunk_overlap >= fn_call.chunk_size \/ fn_call.chunk_size <= 0)) =>
        fn_out.raised

\* the events of the last operation that are calls of c
CallsOf(c) == SelectSeq(log, LAMBDA e : e.call = c)

\* the last operation was a query, called directly or over HTTP
IsQuery == called.op \in {"query", "process_query"}

\* the chunks the files of the last ingest yielded
ChunksProcessed ==
    LET ps == CallsOf("process_file")
    IN  SumSeq([i \in DOMAIN ps |-> ps[i].n])

\* C21: an ingest and a query make at most one embedding request (an ingest
\* one request for all its chunk texts, a query one request for the one
\* question); a failed request is not repeated, it is the last call of the
\* operation (no search, generation or upsert follows) and the operation
\* returns a failure result.
C21_OneEmbeddingRequest ==
    LET embeds == CallsOf("embed")
    IN  /\ Len(embeds) <= 1
        /\ embeds # <<>> =>
              embeds[1].n = (IF IsQuery THEN 1 ELSE ChunksProcessed)
        /\ Failed("embed") =>
              /\ log[Len(log)].call = "embed"
              /\ CallsOf("search") = <<>>
              /\ CallsOf("generate") = <<>>
              /\ CallsOf("upsert") = <<>>
              /\ IF IsQuery
                 THEN "error" \in DOMAIN result /\ result.should_escalate
                 ELSE ~result.success

\* an ingest of two files whose one embedding request, for both chunks, fails
C21_Witness ==
    /\ called.op = "ingest_documents"
    /\ Failed("embed")
    /\ ChunksProcessed >= 2
    /\ ~result.success

\* the categories in the order of the tests, each with its keywords
Categories ==
    <<[type |-> "faq", keywords |-> faq_keywords],
      [type |-> "policy", keywords |-> policy_keywords],
      [type |-> "return_policy", keywords |-> return_policy_keywords],
      [type |-> "shipping_info", keywords |-> shipping_info_keywords],
      [type |-> "product_info", keywords |-> product_info_keywords],
      [type |-> "support_guide", keywords |-> support_guide_keywords]>>

\* keyword occurs in name at some position, letter case ignored
MatchesIgnoringCase(keyword, name) ==
    \E i \in 0 .. (Len(name) - Len(keyword)) :
        \A j \in DOMAIN keyword :
            lower_char(name[i + j]) = lower_char(keyword[j])

CategoryMatches(c, name) ==
    \E keyword \in Categories[c].keywords : MatchesIgnoringCase(keyword, name)

C24_FixedWeightsMonotone ==
    (/\ \/ fn_call.fn = "_calculate_confidence twice"
        \/ fn_call.fn = "calculate_confidence twice" /\ fn_call.weights = <<>>
     /\ fn_call.a.top = fn_call.b.top
     /\ fn_call.a.consistency = fn_call.b.consistency
     /\ fn_call.a.sum * fn_call.b.n <= fn_call.b.sum * fn_call.a.n)
        => fn_out.a <= fn_out.b

\* C25: in a query the answer is asked of the generation collaborator only
\* after the embedding call succeeded and the search returned at least one
\* result; after a search with no result no generation call is made and
\* the fixed placeholder answer is returned.
C25_GenerationNeedsResults ==
    called.op = "query" =>
        /\ \A g \in DOMAIN log : log[g].call = "generate" =>
              /\ \E e \in 1 .. (g - 1) : log[e].call = "embed" /\ log[e].ok
              /\ \E s \in 1 .. (g - 1) :
                    /\ log[s].call = "search" /\ log[s].n >= 1
                    /\ \E e \in 1 .. (s - 1) : log[e].call = "embed" /\ log[e].ok
        /\ (\E s \in DOMAIN log : log[s].call = "search" /\ log[s].n = 0) =>
              /\ CallsOf("generate") = <<>>
              /\ result.response = "no information: contact support"

\* a query whose search matched nothing in a non-empty index: no generation
C25_Witness ==
    /\ called.op = "query"
    /\ DOMAIN index # {}
    /\ \E s \in DOMAIN log : log[s].call = "search" /\ log[s].n = 0 /\ log[s].ok
    /\ CallsOf("generate") = <<>>
    /\ result.response = "no information: contact support"

\* C26: in every outcome of query the routing flags agree with the
\* confidence reported in that outcome, the one rounded to 3 decimals:
\* auto_response = (confidence >= high), should_escalate = (confidence < low).
C26_FlagsAgreeWithReported ==
    called.op = "query" =>
        /\ result.auto_response = (result.confidence >= high)
        /\ result.should_escalate = (result.confidence < low)

\* the last operation was a /api/query request answered from an engine result
AnsweredFromEngine == called.op = "process_query" /\ http.status \in {200, 202}

\* C27: for every /api/query response made of an engine result the status
\* is 202 exactly when should_escalate in the body is true, and 200 exactly
\* when it is false.
C27_StatusAgreesWithBody ==
    AnsweredFromEngine =>
        /\ http.status = 202 <=> http.body.should_escalate
        /\ http.status = 200 <=> ~http.body.should_escalate

\* C28: the body of a /api/query response has success = true only when the
\* engine made its outcome without a collaborator failure: the outcome that
\* carries an error is not returned as success = true, and the body shows
\* the error.
C28_DegradedNotSuccess ==
    (AnsweredFromEngine /\ "error" \in DOMAIN result) =>
        /\ ~http.body.success
        /\ "error" \in DOMAIN http.body \/ "error_type" \in DOMAIN http.body

\* the rows of self.vectors (None holds no row)
VectorRows == IF store_vectors = <<>> THEN 0 ELSE store_vectors[1].n

\* C29: after add calls made one after the other, accepted or rejected, the
\* store holds as many metadata records and vector rows as texts, and the
\* search structure, when there is one, is fitted over exactly those rows.
C29_StoreCountsAgree ==
    Quiescent(adder) =>
        /\ Len(store_metadata) = Len(store_texts)
        /\ VectorRows = Len(store_texts)
        /\ store_nn # <<>> =>
              /\ store_nn[1].fitted
              /\ store_nn[1].fit_X = store_vectors[1].rows
              /\ Len(store_nn[1].fit_X) = Len(store_texts)

\* a batch rejected after accepted ones filled the store
C29_Witness ==
    /\ adder.pc = "raised"
    /\ Len(store_texts) = MaxStore
    /\ VectorRows = MaxStore
    /\ store_nn # <<>>
    /\ Len(store_nn[1].fit_X) = MaxStore

\* no file of the files yields a chunk: each raises or splits into nothing
NoChunkIn(fs, files) == \A f \in files : ~fs[f].readable \/ fs[f].pieces = 0

\* the last operation was an ingest none of whose files yielded a chunk
IngestWithoutChunks ==
    \/ /\ called.op = "ingest_documents"
       /\ NoChunkIn(called.fs, Range(called.file_paths))
    \/ /\ called.op = "ingest_directory"
       /\ ~called.exists \/ NoChunkIn(called.fs, Range(called.listing))

\* C30: an ingest_documents or ingest_directory call none of whose files
\* yields a chunk (every file fails or is empty) returns success = false,
\* makes no embedding request and no upsert, and leaves the index as it was.
C30_NoChunksNoCalls ==
    [][(ncalls' = ncalls + 1 /\ IngestWithoutChunks') =>
          /\ ~result'.success
          /\ \A i \in DOMAIN log' : log'[i].call \notin {"embed", "upsert"}
          /\ adds' = adds
          /\ index' = index]_vars

\* a directory of files that fail or are empty, ingested into an index that
\* holds entries
C30_Witness ==
    /\ called.op = "ingest_directory"
    /\ called.exists
    /\ Len(called.listing) >= 2
    /\ NoChunkIn(called.fs, Range(called.listing))
    /\ \E f \in Range(called.listing) : ~called.fs[f].readable
    /\ \E f \in Range(called.listing) : called.fs[f].readable
    /\ ~result.success
    /\ DOMAIN index # {}

====
